---- MODULE Spec2Model ----
(***************************************************************************)
(* Crew Manifest (src/manifest/manifest.py): the composition engine that   *)
(* renders service manifests and stacks into the compose / traefik / gatus *)
(* documents.                                                              *)
(*                                                                         *)
(* Python values.  A value is a scalar (str, int, None) or a reference to  *)
(* a heap object (dict or list).  Objects live in `heap`, a sequence       *)
(* indexed by address, so that identity, aliasing and in-place assignment  *)
(* (`result[key] = ...`) are what they are in the interpreter.  A document *)
(* (the deep value of a reference) is the same tree with the objects in    *)
(* place of the references; `Read` takes a reference to its document and   *)
(* `Alloc` builds fresh objects for a document.                            *)
(*                                                                         *)
(* Limits of the model: dict keys are strings; dict equality ignores       *)
(* insertion order (as Python's == does), so a dict is a function from its *)
(* keys; bool and float scalars are left out; the text of str() of a dict  *)
(* or list is kept opaque (tag "repr").                                    *)
(***************************************************************************)
EXTENDS Integers, Sequences, FiniteSets, TLC

VARIABLES
    pc,         \* where the run is
    heap,       \* the objects of the interpreter, by address
    hashOrder,     \* the set iteration order of this interpreter run (hash seed)
    A,          \* deep_merge's first argument (a reference)
    B,          \* deep_merge's second argument (a reference)
    A0,         \* the document A held when it was built
    B0,         \* the document B held when it was built
    merged,     \* the outcome of deep_merge(A, B)
    third,      \* a third document, merged after the first two
    left,       \* the outcome of deep_merge(deep_merge(A, B), third)
    right,      \* the outcome of deep_merge(A, deep_merge(B, third))
    args,       \* cmd_render: the command line, [path, dry_run]
    stack,      \* the stack descriptor the stack file parses to
    services_dir,   \* the service manifests, by file name
    outputs,    \* render_stack: the accumulated Output Set
    include_i,  \* render_stack: the index of the next included service
    manifest,   \* render_service: the manifest being rendered
    service_variables,  \* render_service: the variable mapping `variables`
    service_outputs,    \* render_service: the accumulated Output Set
    loop_j,     \* render_service: the index of the next provision or sidecar
    rendered,   \* cmd_render: the Output Set the renderer returned
    written,    \* the files written, by path
    printed,    \* the lines printed
    exc         \* the exception that ended the run ("" if none)

mergeVars == <<heap, hashOrder, A, B, A0, B0, merged, third, left, right>>
renderVars == <<args, stack, services_dir, outputs, include_i, manifest, service_variables,
                service_outputs, loop_j, rendered, written, printed, exc>>
vars == <<pc, mergeVars, renderVars>>

\* ------------------------------------------------------------------------
\* Values and documents

Str(s)  == [t |-> "str", v |-> s]
\* An int carries its decimal text, which is what str() yields.
PyInt(s) == [t |-> "int", v |-> s]
None    == [t |-> "none", v |-> "None"]
Dict(f) == [t |-> "dict", m |-> f]
List(s) == [t |-> "list", l |-> s]
Ref(a)  == [t |-> "ref", a |-> a]
\* The string str(d) of a container document d.
Repr(d) == [t |-> "repr", d |-> d]

EmptyMap == <<>>

IsScalar(d) == d.t \in {"str", "int", "none", "repr"}

\* The range of a sequence.
Range(s) == {s[i] : i \in 1..Len(s)}

\* ------------------------------------------------------------------------
\* The heap

\* A new object o at the next free address: [h |-> the heap, v |-> its reference].
NewObject(h, o) == [h |-> Append(h, o), v |-> Ref(Len(h) + 1)]

\* Some element of a nonempty set: the item an iteration over it takes next.
Pick(S) == CHOOSE x \in S : TRUE

RECURSIVE Alloc(_, _), AllocItems(_, _), AllocElems(_, _)
\* Fresh objects holding document d: [h |-> the new heap, v |-> the value].
Alloc(h, d) ==
    IF d.t = "dict" THEN AllocItems([h |-> h, f |-> EmptyMap], d.m)
    ELSE IF d.t = "list" THEN AllocElems([h |-> h, s |-> <<>>], d.l)
    ELSE [h |-> h, v |-> d]

\* A new dict of the items of f, their values allocated one after the other:
\* r holds the heap and the items made so far.
AllocItems(r, f) ==
    IF DOMAIN r.f = DOMAIN f THEN NewObject(r.h, Dict(r.f))
    ELSE LET k == Pick(DOMAIN f \ DOMAIN r.f)
             Put(c) == [h |-> c.h, f |-> r.f @@ (k :> c.v)]
         IN AllocItems(Put(Alloc(r.h, f[k])), f)

\* A new list of the elements of s, allocated in order: r holds the heap and
\* the elements made so far.
AllocElems(r, s) ==
    IF Len(r.s) = Len(s) THEN NewObject(r.h, List(r.s))
    ELSE LET Put(c) == [h |-> c.h, s |-> Append(r.s, c.v)]
         IN AllocElems(Put(Alloc(r.h, s[Len(r.s) + 1])), s)

RECURSIVE Read(_, _)
\* The document a value denotes in heap h.
Read(h, v) ==
    IF v.t = "ref" THEN
        LET o == h[v.a]
        IN IF o.t = "dict"
           THEN Dict([k \in DOMAIN o.m |-> Read(h, o.m[k])])
           ELSE List([i \in 1..Len(o.l) |-> Read(h, o.l[i])])
    ELSE v

IsDictV(h, v) == v.t = "ref" /\ h[v.a].t = "dict"
IsListV(h, v) == v.t = "ref" /\ h[v.a].t = "list"

\* copy.deepcopy: a scalar is returned as it is, a container is rebuilt from
\* fresh objects (documents are trees: there is no sharing to preserve).
deepcopy(h, v) == Alloc(h, Read(h, v))

\* `obj[key] = val` on the dict object that `obj` refers to.
SetItem(h, obj, key, val) ==
    LET f == h[obj.a].m
        g == [k \in (DOMAIN f) \cup {key} |-> IF k = key THEN val ELSE f[k]]
    IN [h EXCEPT ![obj.a] = Dict(g)]

\* ------------------------------------------------------------------------
\* Strings

\* The least element of a nonempty set of integers.
Least(S) == CHOOSE k \in S : \A m \in S : k <= m

\* The first index >= i of the one-character string c in s, or 0.
IndexOf(s, c, i) ==
    LET at == {k \in i..Len(s) : SubSeq(s, k, k) = c}
    IN IF at = {} THEN 0 ELSE Least(at)

\* str(v) of a value in heap h.
PyStr(h, v) ==
    IF v.t = "ref" THEN Repr(Read(h, v))
    ELSE IF v.t \in {"int", "none"} THEN Str(v.v)
    ELSE v

\* ------------------------------------------------------------------------
\* Merge engine

UNION_KEYS == {"networks", "depends_on"}
EXTEND_KEYS == {"endpoints"}

\* A call's result: the heap after it, the value returned, the exception
\* raised ("" when it returned).
Return(h, v) == [h |-> h, v |-> v, exc |-> ""]
Raise(h, e)  == [h |-> h, v |-> None, exc |-> e]

\* The result [h, v] of a copy or an allocation, as a call that returned.
Returned(c) == Return(c.h, c.v)

RECURSIVE normalize_items(_, _, _, _, _)
\* The loop of normalize_to_dict over a list: items[i..] into `acc`.
normalize_items(h, items, i, acc, key_name) ==
    IF i > Len(items) THEN
        Returned(NewObject(h, Dict(acc)))
    ELSE
        LET Item(s) ==
              LET p == IF s.t = "str" THEN IndexOf(s.v, "=", 1) ELSE 0
              IN IF p = 0
                 THEN Raise(h, "ValueError: Invalid " \o key_name \o " format")
                 ELSE LET k == SubSeq(s.v, 1, p - 1)
                          w == Str(SubSeq(s.v, p + 1, Len(s.v)))
                          g == [x \in (DOMAIN acc) \cup {k} |->
                                   IF x = k THEN w ELSE acc[x]]
                      IN normalize_items(h, items, i + 1, g, key_name)
        IN Item(PyStr(h, items[i]))

\* Seeded fault: normalize_to_dict with repr(v) for str(v), which quotes a
\* string each time it is normalized.
normalize_to_dict_repr(h, value, key_name) ==
    IF value = None THEN Returned(NewObject(h, Dict(EmptyMap)))
    ELSE IF IsDictV(h, value) THEN
        Returned(NewObject(h, Dict([k \in DOMAIN h[value.a].m |->
                                       Repr(Read(h, h[value.a].m[k]))])))
    ELSE IF IsListV(h, value) THEN
        normalize_items(h, h[value.a].l, 1, EmptyMap, key_name)
    ELSE Raise(h, "ValueError: Invalid " \o key_name \o " type")

\* Convert list-style environment/labels to dict format.
normalize_to_dict(h, value, key_name) ==
    IF value = None THEN Returned(NewObject(h, Dict(EmptyMap)))
    ELSE IF IsDictV(h, value) THEN
        Returned(NewObject(h, Dict([k \in DOMAIN h[value.a].m |->
                                       PyStr(h, h[value.a].m[k])])))
    ELSE IF IsListV(h, value) THEN
        normalize_items(h, h[value.a].l, 1, EmptyMap, key_name)
    ELSE Raise(h, "ValueError: Invalid " \o key_name \o " type")

RECURSIVE SetToSeq(_)
\* The elements of S in some fixed order.
SetToSeq(S) ==
    IF S = {} THEN <<>>
    ELSE <<Pick(S)>> \o SetToSeq(S \ {Pick(S)})

Reverse(s) == [i \in 1..Len(s) |-> s[Len(s) + 1 - i]]

\* The orders a set is iterated in: the order depends on the hash seed of
\* the interpreter run, of which two are told apart.
SetOrders == {"forward", "backward"}

\* list(S) of a set S of hashable values, in the iteration order `ord`.
ListOfSet(S, ord) ==
    IF ord = "forward" THEN SetToSeq(S) ELSE Reverse(SetToSeq(S))

\* `result[key] = c.v` in the heap c.h of a call that returned c.
Assign(c, result, key) ==
    IF c.exc # "" THEN [h |-> c.h, exc |-> c.exc]
    ELSE [h |-> SetItem(c.h, result, key, c.v), exc |-> ""]

\* Seeded fault: result.setdefault(key, deepcopy(value)), which keeps the
\* value the base holds.
replace_value_setdefault(h, result, key, value) ==
    IF key \in DOMAIN h[result.a].m THEN [h |-> h, exc |-> ""]
    ELSE Assign(Returned(deepcopy(h, value)), result, key)

\* result[key] = deepcopy(value)
replace_value(h, result, key, value) ==
    Assign(Returned(deepcopy(h, value)), result, key)

\* Seeded fault: result[key] = list(set(result[key])) + value, which removes
\* the duplicates of the base only.
union_lists_base_only(h, result, key, value, ord) ==
    LET x == h[h[result.a].m[key].a].l
        y == h[value.a].l
    IN IF \E e \in Range(x) : e.t = "ref"
       THEN [h |-> h, exc |-> "TypeError: unhashable type"]
       ELSE Assign(Returned(NewObject(h, List(ListOfSet(Range(x), ord) \o y))),
                   result, key)

\* result[key] = list(set(result[key]) | set(value))
union_lists(h, result, key, value, ord) ==
    LET x == h[h[result.a].m[key].a].l
        y == h[value.a].l
    IN IF \E e \in Range(x) \cup Range(y) : e.t = "ref"
       THEN [h |-> h, exc |-> "TypeError: unhashable type"]
       ELSE Assign(Returned(NewObject(h,
                List(ListOfSet(Range(x) \cup Range(y), ord)))), result, key)

\* Seeded fault: result[key] = deepcopy(value) + result[key], the overlay
\* first.
extend_lists_overlay_first(h, result, key, value) ==
    LET Extended(c) ==
          Returned(NewObject(c.h, List(c.h[c.v.a].l \o h[h[result.a].m[key].a].l)))
    IN Assign(Extended(deepcopy(h, value)), result, key)

\* result[key] = result[key] + deepcopy(value)
extend_lists(h, result, key, value) ==
    LET Extended(c) ==
          Returned(NewObject(c.h, List(h[h[result.a].m[key].a].l \o c.h[c.v.a].l)))
    IN Assign(Extended(deepcopy(h, value)), result, key)

RECURSIVE deep_merge(_, _, _, _), merge_items(_, _, _, _, _), merge_item(_, _, _, _, _)

\* One pass of the loop of deep_merge: `result[key]` from overlay's `value`.
merge_item(h, result, key, value, ord) ==
    LET f == h[result.a].m IN
    IF key \notin DOMAIN f THEN
        replace_value(h, result, key, value)
    ELSE IF IsDictV(h, f[key]) /\ IsDictV(h, value) THEN
        IF key \in {"environment", "labels"} THEN
            \* result[key] = normalize_to_dict(result[key], key)
            \* value = normalize_to_dict(value, key)
            LET Second(n1, n2) ==
                  IF n2.exc # "" THEN [h |-> n2.h, exc |-> n2.exc]
                  ELSE Assign(deep_merge(n2.h, n1.v, n2.v, ord), result, key)
                First(n1) ==
                  IF n1.exc # "" THEN [h |-> n1.h, exc |-> n1.exc]
                  ELSE Second(n1, normalize_to_dict(
                                      SetItem(n1.h, result, key, n1.v), value, key))
            IN First(normalize_to_dict(h, f[key], key))
        ELSE
            Assign(deep_merge(h, f[key], value, ord), result, key)
    ELSE IF IsListV(h, f[key]) /\ IsListV(h, value) THEN
        IF key \in UNION_KEYS THEN union_lists(h, result, key, value, ord)
        ELSE IF key \in EXTEND_KEYS THEN extend_lists(h, result, key, value)
        ELSE replace_value(h, result, key, value)
    ELSE
        replace_value(h, result, key, value)

\* The loop of deep_merge over the items `ks` of overlay still to visit: r
\* holds the heap and the exception of the pass before.  The loop ends when
\* a pass raised or no item is left, and `result` is returned.
merge_items(r, result, overlay, ks, ord) ==
    IF r.exc # "" \/ ks = {}
    THEN [h |-> r.h, v |-> IF r.exc = "" THEN result ELSE None, exc |-> r.exc]
    ELSE merge_items(merge_item(r.h, result, Pick(ks), r.h[overlay.a].m[Pick(ks)], ord),
                     result, overlay, ks \ {Pick(ks)}, ord)

\* Seeded fault: deep_merge with `result = base`, merging into the base
\* itself.
deep_merge_in_place(h, base, overlay, ord) ==
    IF ~IsDictV(h, overlay)
    THEN Raise(h, "AttributeError: no attribute 'items'")
    ELSE merge_items([h |-> h, exc |-> ""], base, overlay, DOMAIN h[overlay.a].m, ord)

\* Recursively merge overlay into base; returns a new dict.  `ord` is the
\* interpreter's set iteration order.  The `path` argument of the source is
\* only carried along and is left out.
deep_merge(h, base, overlay, ord) ==
    LET Loop(c) ==
          IF ~IsDictV(h, overlay)
          THEN Raise(c.h, "AttributeError: no attribute 'items'")
          ELSE merge_items([h |-> c.h, exc |-> ""], c.v, overlay,
                           DOMAIN h[overlay.a].m, ord)
    IN Loop(deepcopy(h, base))

\* deep_merge on documents: the arguments are built in an empty heap and
\* the result is read back.  [exc |-> the exception, doc |-> the result].
merge_documents(x, y, ord) ==
    LET Merged(r) ==
          [exc |-> r.exc, doc |-> IF r.exc = "" THEN Read(r.h, r.v) ELSE None]
        Second(a, b) == Merged(deep_merge(b.h, a.v, b.v, ord))
        First(a) == Second(a, Alloc(a.h, y))
    IN First(Alloc(<<>>, x))

\* ------------------------------------------------------------------------
\* Interpolator

\* The characters \w matches.
WordChars ==
    {"a", "b", "c", "d", "e", "f", "g", "h", "i", "j", "k", "l", "m",
     "n", "o", "p", "q", "r", "s", "t", "u", "v", "w", "x", "y", "z",
     "A", "B", "C", "D", "E", "F", "G", "H", "I", "J", "K", "L", "M",
     "N", "O", "P", "Q", "R", "S", "T", "U", "V", "W", "X", "Y", "Z",
     "0", "1", "2", "3", "4", "5", "6", "7", "8", "9", "_"}

\* The index that follows the run of word characters of s starting at i.
WordEnd(s, i) ==
    Least({k \in i..(Len(s) + 1) : k > Len(s) \/ SubSeq(s, k, k) \notin WordChars})

\* The indices >= i of template where the pattern \$\{(\w+)\} matches.
Matches(template, i) ==
    {k \in i..(Len(template) - 1) :
        /\ SubSeq(template, k, k + 1) = "${"
        /\ WordEnd(template, k + 2) > k + 2
        /\ WordEnd(template, k + 2) <= Len(template)
        /\ SubSeq(template, WordEnd(template, k + 2), WordEnd(template, k + 2)) = "}"}

RECURSIVE interpolate_from(_, _, _)
\* pattern.sub(replacer, template) from index i on: [exc, s].  The text up
\* to the leftmost match is kept, the match is replaced, and the scan goes on
\* behind it.
interpolate_from(template, variables, i) ==
    LET Prefixed(head, r) ==
            IF r.exc # "" THEN r ELSE [exc |-> "", s |-> head \o r.s]
        Replaced(k, j) ==
            LET key == SubSeq(template, k + 2, j - 1)
            IN IF key \notin DOMAIN variables
               THEN [exc |-> "ValueError: Missing variable: ${" \o key \o "}",
                     s |-> ""]
               ELSE Prefixed(SubSeq(template, i, k - 1) \o PyStr(<<>>, variables[key]).v,
                             interpolate_from(template, variables, j + 1))
        First(k) == Replaced(k, WordEnd(template, k + 2))
        Scan(at) ==
            IF at = {} THEN [exc |-> "", s |-> SubSeq(template, i, Len(template))]
            ELSE First(Least(at))
    IN Scan(Matches(template, i))

\* Replace ${var} placeholders with values.  Raises on missing variables.
interpolate(template, variables) == interpolate_from(template, variables, 1)

\* ------------------------------------------------------------------------
\* Fragment loader
\*
\* A provision file is kept as the document its text parses to, the
\* placeholders still in its keys and string scalars: interpolating the text
\* and parsing it is interpolating each of these strings.  (String scalars
\* are taken as quoted: the reader's typing of plain scalars is left out.)

RECURSIVE Templates(_)
\* The strings of a provision file: its keys and its string scalars.
Templates(d) ==
    IF d.t = "str" THEN {d.v}
    ELSE IF d.t = "dict"
    THEN (DOMAIN d.m) \cup UNION {Templates(d.m[k]) : k \in DOMAIN d.m}
    ELSE IF d.t = "list" THEN UNION {Templates(d.l[i]) : i \in 1..Len(d.l)}
    ELSE {}

RECURSIVE Interpolated(_, _)
\* The document a provision file parses to after interpolation.
Interpolated(d, variables) ==
    IF d.t = "str" THEN Str(interpolate(d.v, variables).s)
    ELSE IF d.t = "dict" THEN
        LET key(k) == interpolate(k, variables).s
        IN Dict([n \in {key(k) : k \in DOMAIN d.m} |->
                    Interpolated(d.m[CHOOSE k \in DOMAIN d.m : key(k) = n], variables)])
    ELSE IF d.t = "list"
    THEN List([i \in 1..Len(d.l) |-> Interpolated(d.l[i], variables)])
    ELSE d

\* The provisions directory.
ProvisionFiles ==
    [ app |->
        Dict([compose |-> Dict([services |-> Dict(("${name}" :>
            Dict([image |-> Str("app"),
                  restart |-> Str("always"),
                  networks |-> List(<<Str("internal")>>),
                  environment |-> Dict([PORT |-> Str("${port}")])])))])]),
      edge |->
        Dict([compose |-> Dict([services |-> Dict(("${name}" :>
                  Dict([restart |-> Str("no"),
                        networks |-> List(<<Str("proxy"), Str("internal")>>),
                        labels |-> List(<<Str("traefik.enable=true")>>)]))),
                                networks |-> Dict([proxy |-> Dict(EmptyMap)])]),
              traefik |-> Dict([routers |-> Dict(("${name}" :>
                  Dict([rule |-> Str("Host(${name})")])))])]),
      health |->
        Dict([gatus |-> Dict([endpoints |-> List(<<
            Dict([name |-> Str("${name}"), url |-> Str("${name}:${port}")])>>)])]),
      postgres |->
        Dict([compose |-> Dict([services |-> Dict(
                  ("${name}" :>
                      Dict([restart |-> Str("on-failure"),
                            depends_on |-> List(<<Str("${name}-${sidecar}")>>),
                            environment |-> Dict([DB |-> Str("${db}")])]))
                  @@ ("${name}-${sidecar}" :>
                      Dict([image |-> Str("postgres:${version}"),
                            networks |-> List(<<Str("internal")>>)])))]),
              gatus |-> Dict([endpoints |-> List(<<
                  Dict([name |-> Str("${name}-${sidecar}")])>>)])]),
      redis |->
        Dict([compose |-> Dict([services |-> Dict(
                  ("${name}" :> Dict([depends_on |-> List(<<Str("${name}-${sidecar}")>>)]))
                  @@ ("${name}-${sidecar}" :> Dict([image |-> Str("redis")])))])]),
      empty |-> None ]

\* Seeded fault: load_provision that takes a missing file for an empty one.
load_provision_lenient(provision_name, variables) ==
    IF provision_name \notin DOMAIN ProvisionFiles
    THEN [exc |-> "", doc |-> Dict(EmptyMap)]
    ELSE LET raw_content == ProvisionFiles[provision_name]
             missing == {interpolate(s, variables).exc : s \in Templates(raw_content)}
                            \ {""}
         IN IF missing # {}
            THEN [exc |-> CHOOSE e \in missing : TRUE, doc |-> None]
            ELSE [exc |-> "",
                  doc |-> IF raw_content = None THEN Dict(EmptyMap)
                          ELSE Interpolated(raw_content, variables)]

\* Load provision, interpolate variables, parse YAML.  [exc, doc].
load_provision(provision_name, variables) ==
    IF provision_name \notin DOMAIN ProvisionFiles
    THEN [exc |-> "FileNotFoundError: Provision not found: " \o provision_name,
          doc |-> None]
    ELSE LET raw_content == ProvisionFiles[provision_name]
             missing == {interpolate(s, variables).exc : s \in Templates(raw_content)}
                            \ {""}
         IN IF missing # {}
            THEN [exc |-> CHOOSE e \in missing : TRUE, doc |-> None]
            ELSE [exc |-> "",
                  doc |-> IF raw_content = None THEN Dict(EmptyMap)
                          ELSE Interpolated(raw_content, variables)]

\* ------------------------------------------------------------------------
\* Bounds and the documents drawn as inputs

\* Longest sequence drawn as an input.
MaxLen == 2
\* Deepest nesting of the merged key below the top of a document.
MaxDepth == 1

\* The hashable elements of input sequences: a plain name and a KEY=VALUE
\* entry.
Elems == <<Str("a"), Str("b=1")>>

MergeKeys == {"image", "networks", "depends_on", "endpoints", "environment", "labels"}

Absent == [t |-> "absent"]

InputValues ==
    {Absent, Str("x"), None}
    \cup {List(s) : s \in UNION {[1..n -> Range(Elems)] : n \in 0..MaxLen}}
    \cup {List(<<Dict([u |-> Str("1")])>>)}
    \cup {Dict([b |-> Str("2")]),
          Dict([b |-> PyInt("1"), c |-> Str("3")]),
          Dict([b |-> Dict([c |-> Str("3")])])}

\* The values the third document of a chain of merges holds.
ThirdValues == {v \in InputValues : v.t = "list" => Len(v.l) <= 1}

RECURSIVE Nest(_, _)
\* Document d below `depth` levels of the key "services".
Nest(depth, d) ==
    IF depth = 0 THEN d ELSE Dict([services |-> Nest(depth - 1, d)])

\* The document that holds value v under `key`, `depth` levels down.
Document(depth, key, v) ==
    Nest(depth, IF v = Absent THEN Dict(EmptyMap) ELSE Dict((key :> v)))

\* What a call left behind: the exception, the value returned and the
\* document it denotes.
Outcome(r) ==
    [exc |-> r.exc, v |-> r.v, doc |-> IF r.exc = "" THEN Read(r.h, r.v) ELSE None]
NoOutcome == [exc |-> "not called", v |-> None, doc |-> None]

\* ------------------------------------------------------------------------
\* The files and command lines drawn as inputs

\* Longest provisions list of a generated manifest.
MaxProvisions == 2
\* Most sidecars of a generated manifest.
MaxSidecars == 1
\* Longest include list of a stack.
MaxInclude == 2

TARGETS == <<"compose", "traefik", "gatus">>

EmptyOutputs == [compose |-> Dict(EmptyMap), traefik |-> Dict(EmptyMap),
                 gatus |-> Dict(EmptyMap)]

\* All sequences over S of length at most n.
SeqsUpTo(S, n) == UNION {[1..m -> S] : m \in 0..n}

\* A manifest, as the service file parses to it.  `services` keeps the
\* order of the mapping as a sequence of [type, config].
Manifest(name, type, config, provisions, services, compose) ==
    [name |-> name, type |-> type, config |-> config, provisions |-> provisions,
     services |-> services, compose |-> compose]

ProvisionNames == {"app", "edge", "postgres", "nofile"}

Configs == {EmptyMap, [port |-> PyInt("8080")]}

Sidecars ==
    {[type |-> "postgres", config |-> [version |-> PyInt("16"), db |-> Str("main")]],
     [type |-> "postgres", config |-> [version |-> PyInt("16")]],
     [type |-> "redis", config |-> EmptyMap]}

RawCompose == Dict([raw1 |-> Dict([image |-> Str("y")])])

\* The manifests a single service is rendered from.
Manifests ==
    {Manifest(name, type, config, provisions, services, compose) :
        name \in {Str("web")}, type \in {Absent}, config \in Configs,
        provisions \in SeqsUpTo(ProvisionNames, MaxProvisions),
        services \in {q \in SeqsUpTo(Sidecars, MaxSidecars) :
                         \A m, n \in 1..Len(q) : m # n => q[m].type # q[n].type},
        compose \in {Absent}}
    \cup
    {Manifest(name, type, EmptyMap, provisions, services, compose) :
        name \in {Str("raw1"), Absent}, type \in {Str("raw"), Absent},
        provisions \in {<<>>, <<"nofile">>, <<"postgres">>},
        services \in {<<>>, <<[type |-> "nofile", config |-> EmptyMap]>>},
        compose \in {Absent, RawCompose}}

\* The services directory a stack includes from.
ServiceFiles ==
    [ web |-> Manifest(Str("web"), Absent, [port |-> PyInt("8080")],
                       <<"app", "edge", "health">>, <<>>, Absent),
      api |-> Manifest(Str("api"), Absent, [port |-> Str("9000"), name |-> Str("api2")],
                       <<"empty", "edge", "app", "health">>,
                       <<[type |-> "postgres",
                          config |-> [version |-> PyInt("16"), db |-> Str("main"),
                                      port |-> Str("5432")]],
                         [type |-> "redis", config |-> EmptyMap]>>, Absent),
      raw |-> Manifest(Str("raw1"), Str("raw"), EmptyMap, <<"nofile">>, <<>>,
                       Dict([raw1 |-> Dict([image |-> Str("y"),
                                            networks |-> List(<<Str("legacy")>>)])]
                            ) ),
      net |-> Manifest(Str("net"), Str("raw"), EmptyMap, <<>>, <<>>, Absent),
      novar |-> Manifest(Str("novar"), Absent, EmptyMap, <<"edge", "app">>, <<>>, Absent),
      nofrag |-> Manifest(Str("nofrag"), Absent, [port |-> Str("1")],
                          <<"health", "nofile">>, <<>>, Absent),
      noname |-> Manifest(Absent, Absent, EmptyMap, <<"edge">>, <<>>, Absent) ]

\* Service file names a stack may include; "gone" names no file.
IncludeNames == (DOMAIN ServiceFiles) \cup {"gone"}

StackNetworks == {Absent, Dict([internal |-> Dict([external |-> Str("true")])])}

\* ------------------------------------------------------------------------
\* Output writer

\* `sub in s`, looking from index i on.
Contains(s, sub, i) ==
    \E k \in i..(Len(s) - Len(sub) + 1) : SubSeq(s, k, k + Len(sub) - 1) = sub

\* Write rendered outputs to files: the files written, by path, and the
\* lines printed.  A file holds the YAML text of its document.
write_outputs(outs, stack_name) ==
    LET filename(target) ==
            IF target = "gatus" THEN "endpoints.yml"
            ELSE IF target = "compose" THEN stack_name \o ".yml"
            ELSE "dynamic.yml"
        path(target) == "output/" \o target \o "/" \o filename(target)
        kept == SelectSeq(TARGETS, LAMBDA target : outs[target] # Dict(EmptyMap))
    IN [files |-> [f \in {path(kept[n]) : n \in 1..Len(kept)} |->
                      outs[CHOOSE target \in Range(kept) : path(target) = f]],
        lines |-> [n \in 1..Len(kept) |-> "Wrote: " \o path(kept[n])]]

\* ------------------------------------------------------------------------
\* Renderers

\* outputs[target] = deep_merge(outputs[target], overlay[target]) for each
\* target the overlay holds, in order: [exc, outs].
RECURSIVE merge_targets(_, _, _, _)

\* Seeded fault: deep_merge(overlay[target], outputs[target]), the operands
\* swapped.
merge_targets_swapped(outs, overlay, n, ord) ==
    IF n > Len(TARGETS) THEN [exc |-> "", outs |-> outs]
    ELSE LET target == TARGETS[n]
             Merged(r) ==
                IF r.exc # "" THEN [exc |-> r.exc, outs |-> outs]
                ELSE merge_targets([outs EXCEPT ![target] = r.doc], overlay, n + 1, ord)
         IN IF target \in DOMAIN overlay
            THEN Merged(merge_documents(overlay[target], outs[target], ord))
            ELSE merge_targets(outs, overlay, n + 1, ord)

merge_targets(outs, overlay, n, ord) ==
    IF n > Len(TARGETS) THEN [exc |-> "", outs |-> outs]
    ELSE LET target == TARGETS[n]
             Merged(r) ==
                IF r.exc # "" THEN [exc |-> r.exc, outs |-> outs]
                ELSE merge_targets([outs EXCEPT ![target] = r.doc], overlay, n + 1, ord)
         IN IF target \in DOMAIN overlay
            THEN Merged(merge_documents(outs[target], overlay[target], ord))
            ELSE merge_targets(outs, overlay, n + 1, ord)

\* The targets a loaded provision holds, by target.
Targets(provision) ==
    [target \in (DOMAIN provision.m) \cap Range(TARGETS) |-> provision.m[target]]

RenderIdle ==
    /\ args = Absent
    /\ stack = Absent
    /\ services_dir = EmptyMap
    /\ outputs = EmptyOutputs
    /\ include_i = 1
    /\ manifest = Absent
    /\ service_variables = EmptyMap
    /\ service_outputs = EmptyOutputs
    /\ loop_j = 1
    /\ rendered = Absent
    /\ written = EmptyMap
    /\ printed = <<>>
    /\ exc = ""

MergeIdle ==
    /\ heap = <<>>
    /\ A = None
    /\ B = None
    /\ A0 = None
    /\ B0 = None
    /\ third = Absent
    /\ merged = NoOutcome
    /\ left = NoOutcome
    /\ right = NoOutcome

InitRender ==
    /\ pc = "cmd_render"
    /\ hashOrder \in SetOrders
    /\ MergeIdle
    /\ \/ /\ args = [path |-> "stacks/main.yml"]
          /\ stack \in [include : SeqsUpTo(IncludeNames, MaxInclude),
                        networks : StackNetworks]
          /\ services_dir = ServiceFiles
       \/ /\ args = [path |-> "services/svc.yml"]
          /\ stack = Absent
          /\ services_dir \in {[svc |-> m] : m \in Manifests}
       \/ /\ args = [path |-> "stacks/gone.yml"]
          /\ stack = Absent
          /\ services_dir = ServiceFiles
    /\ outputs = EmptyOutputs
    /\ include_i = 1
    /\ manifest = Absent
    /\ service_variables = EmptyMap
    /\ service_outputs = EmptyOutputs
    /\ loop_j = 1
    /\ rendered = Absent
    /\ written = EmptyMap
    /\ printed = <<>>
    /\ exc = ""

\* An exception leaves the run: nothing catches it.
Raised(e) == pc' = "raised" /\ exc' = e

IsStack == Contains(args.path, "stacks", 1)

\* The file name of a path below services/, without its suffix.
ServiceFile == SubSeq(args.path, Len("services/") + 1, Len(args.path) - Len(".yml"))

\* cmd_render, up to the call of the renderer.
CmdRender ==
    /\ pc = "cmd_render"
    /\ IF IsStack /\ stack = Absent THEN
          \* the input path does not exist
          /\ printed' = Append(printed, "Error: " \o args.path \o " not found")
          /\ pc' = "exit_1"
          /\ UNCHANGED <<outputs, include_i, manifest>>
       ELSE IF IsStack THEN
          /\ outputs' = EmptyOutputs
          /\ include_i' = 1
          /\ pc' = "render_stack"
          /\ UNCHANGED <<printed, manifest>>
       ELSE
          /\ manifest' = services_dir[ServiceFile]
          /\ pc' = "render_service"
          /\ UNCHANGED <<printed, outputs, include_i>>
    /\ UNCHANGED <<mergeVars, args, stack, services_dir, service_variables, service_outputs,
                   loop_j, rendered, written, exc>>

\* render_stack: one pass of the loop over stack["include"], up to the call
\* of render_service.
RenderStackInclude ==
    /\ pc = "render_stack"
    /\ include_i <= Len(stack.include)
    /\ LET service_file == stack.include[include_i]
       IN IF service_file \notin DOMAIN services_dir
          THEN /\ Raised("FileNotFoundError: Service not found: " \o service_file)
               /\ UNCHANGED manifest
          ELSE /\ manifest' = services_dir[service_file]
               /\ pc' = "render_service"
               /\ UNCHANGED exc
    /\ UNCHANGED <<mergeVars, args, stack, services_dir, outputs, include_i, service_variables,
                   service_outputs, loop_j, rendered, written, printed>>

\* Seeded fault: outputs["compose"] = manifest["compose"], without the
\* `services` key.
raw_outputs_unwrapped(mf) ==
    IF mf.compose # Absent
    THEN [EmptyOutputs EXCEPT !.compose = mf.compose]
    ELSE EmptyOutputs

\* if "compose" in manifest: outputs["compose"] = {"services": manifest["compose"]}
raw_outputs(mf) ==
    IF mf.compose # Absent
    THEN [EmptyOutputs EXCEPT !.compose = Dict([services |-> mf.compose])]
    ELSE EmptyOutputs

\* variables = {"name": name, **config}
name_and_config(name, config) ==
    [k \in {"name"} \cup DOMAIN config |->
        IF k \in DOMAIN config THEN config[k] ELSE name]

\* render_service, up to the loops: the variables, the accumulators and the
\* raw passthrough mode.
RenderService ==
    /\ pc = "render_service"
    /\ IF manifest.name = Absent THEN
          /\ Raised("KeyError: 'name'")
          /\ UNCHANGED <<service_variables, service_outputs, loop_j>>
       ELSE
          /\ service_variables' = name_and_config(manifest.name, manifest.config)
          /\ loop_j' = 1
          /\ IF manifest.type = Str("raw")
             THEN /\ service_outputs' = raw_outputs(manifest)
                  /\ pc' = "service_return"
             ELSE /\ service_outputs' = EmptyOutputs
                  /\ pc' = "service_loops"
          /\ UNCHANGED exc
    /\ UNCHANGED <<mergeVars, args, stack, services_dir, outputs, include_i, manifest,
                   rendered, written, printed>>

\* outputs[target] = deep_merge(outputs[target], provision[target]) for the
\* loaded provision, or the exception of the load or of the merge.
MergeProvision(provision) ==
    LET Merged(r) ==
          IF r.exc # "" THEN Raised(r.exc) /\ UNCHANGED service_outputs
          ELSE /\ service_outputs' = r.outs
               /\ pc' = "service_loops"
               /\ UNCHANGED exc
    IN IF provision.exc # ""
       THEN Raised(provision.exc) /\ UNCHANGED service_outputs
       ELSE Merged(merge_targets(service_outputs, Targets(provision.doc), 1, hashOrder))

\* render_service: one pass of the loop over the provisions.
RenderServiceProvision ==
    /\ pc = "service_loops"
    /\ loop_j <= Len(manifest.provisions)
    /\ MergeProvision(load_provision(manifest.provisions[loop_j], service_variables))
    /\ loop_j' = loop_j + 1
    /\ UNCHANGED <<mergeVars, args, stack, services_dir, outputs, include_i, manifest,
                   service_variables, rendered, written, printed>>

\* {"name": name, "sidecar": sidecar_type, **sidecar_config, **config}
sidecar_vars(name, sidecar_type, sidecar_config, config) ==
    [k \in {"name", "sidecar"} \cup DOMAIN sidecar_config \cup DOMAIN config |->
        IF k \in DOMAIN config THEN config[k]
        ELSE IF k \in DOMAIN sidecar_config THEN sidecar_config[k]
        ELSE IF k = "sidecar" THEN Str(sidecar_type)
        ELSE name]

\* render_service: one pass of the loop over the sidecar services.
RenderServiceSidecar ==
    /\ pc = "service_loops"
    /\ loop_j > Len(manifest.provisions)
    /\ loop_j <= Len(manifest.provisions) + Len(manifest.services)
    /\ LET sidecar == manifest.services[loop_j - Len(manifest.provisions)]
       IN MergeProvision(load_provision(sidecar.type,
              sidecar_vars(manifest.name, sidecar.type, sidecar.config, manifest.config)))
    /\ loop_j' = loop_j + 1
    /\ UNCHANGED <<mergeVars, args, stack, services_dir, outputs, include_i, manifest,
                   service_variables, rendered, written, printed>>

\* render_service returns its outputs: to render_stack, which merges them
\* into its own and goes on with its loop, or to cmd_render.
RenderServiceReturn ==
    /\ \/ pc = "service_return"
       \/ /\ pc = "service_loops"
          /\ loop_j > Len(manifest.provisions) + Len(manifest.services)
    /\ IF IsStack THEN
          LET Merged(r) ==
                IF r.exc # "" THEN Raised(r.exc) /\ UNCHANGED <<outputs, include_i>>
                ELSE /\ outputs' = r.outs
                     /\ include_i' = include_i + 1
                     /\ pc' = "render_stack"
                     /\ UNCHANGED exc
          IN /\ Merged(merge_targets(outputs, service_outputs, 1, hashOrder))
             /\ UNCHANGED rendered
       ELSE
          /\ rendered' = service_outputs
          /\ pc' = "output"
          /\ UNCHANGED <<outputs, include_i, exc>>
    /\ UNCHANGED <<mergeVars, args, stack, services_dir, manifest, service_variables,
                   service_outputs, loop_j, written, printed>>

\* Seeded fault: the stack's networks merged into the compose document by
\* deep_merge instead of assigned.
stack_networks_merged(outs, stk) ==
    IF stk.networks # Absent
    THEN [outs EXCEPT !.compose =
             merge_documents(outs.compose, Dict([networks |-> stk.networks]),
                             "forward").doc]
    ELSE outs

\* if "networks" in stack: outputs["compose"]["networks"] = stack["networks"]
stack_networks(outs, stk) ==
    IF stk.networks # Absent
    THEN [outs EXCEPT !.compose =
             Dict([k \in DOMAIN outs.compose.m \cup {"networks"} |->
                      IF k = "networks" THEN stk.networks ELSE outs.compose.m[k]])]
    ELSE outs

\* render_stack after its loop: the network definitions of the stack.
RenderStackNetworks ==
    /\ pc = "render_stack"
    /\ include_i > Len(stack.include)
    /\ outputs' = stack_networks(outputs, stack)
    /\ rendered' = outputs'
    /\ pc' = "output"
    /\ UNCHANGED <<mergeVars, args, stack, services_dir, include_i, manifest, service_variables,
                   service_outputs, loop_j, written, printed, exc>>

\* cmd_render after the renderer returned: print, or write the files.
CmdRenderOutput ==
    /\ pc = "output"
    /\ \E dry_run \in BOOLEAN :
          /\ args' = [path |-> args.path, dry_run |-> dry_run]
          /\ IF dry_run
             THEN /\ printed' = Append(printed, rendered)
                  /\ UNCHANGED written
             ELSE LET stack_name == IF IsStack THEN "main"
                                    ELSE PyStr(<<>>, manifest.name).v
                      out == write_outputs(rendered, stack_name)
                  IN /\ written' = out.files
                     /\ printed' = printed \o out.lines
    /\ pc' = "exit_0"
    /\ UNCHANGED <<mergeVars, stack, services_dir, outputs, include_i, manifest,
                   service_variables, service_outputs, loop_j, rendered, exc>>

\* ------------------------------------------------------------------------
\* Direct calls of deep_merge

InitMerge ==
    /\ pc = "merge"
    /\ \E depth \in 0..MaxDepth, key \in MergeKeys, va \in InputValues, vb \in InputValues :
          LET Built(a, b) ==
                \* the order only shows where a set is built
                /\ hashOrder \in IF key \in UNION_KEYS THEN SetOrders ELSE {"forward"}
                /\ A = a.v
                /\ A0 = Read(a.h, a.v)
                /\ B = b.v
                /\ B0 = Read(b.h, b.v)
                /\ heap = b.h
                /\ third = [depth |-> depth, key |-> key, doc |-> None, v |-> None]
              First(a) == Built(a, Alloc(a.h, Document(depth, key, vb)))
          IN First(Alloc(<<>>, Document(depth, key, va)))
    /\ merged = NoOutcome
    /\ left = NoOutcome
    /\ right = NoOutcome
    /\ RenderIdle

\* merged = deep_merge(A, B)
CallDeepMerge ==
    /\ pc = "merge"
    /\ LET Called(r) == heap' = r.h /\ merged' = Outcome(r)
       IN Called(deep_merge(heap, A, B, hashOrder))
    /\ pc' = "merged"
    /\ UNCHANGED <<hashOrder, A, B, A0, B0, third, left, right, renderVars>>

\* left = deep_merge(merged, c); right = deep_merge(A, deep_merge(B, c)) for a
\* third document c: A and B are handed to a second merge.
CallDeepMergeAgain ==
    /\ pc = "merged"
    /\ \E vc \in ThirdValues :
          LET d == Document(third.depth, third.key, vc)
              Outer(l, r) ==
                  /\ heap' = r.h
                  /\ left' = Outcome(l)
                  /\ right' = Outcome(r)
              Inner(l, bc) ==
                  Outer(l, IF bc.exc # "" THEN bc
                           ELSE deep_merge(bc.h, A, bc.v, hashOrder))
              Left(c, l) == Inner(l, deep_merge(l.h, B, c.v, hashOrder))
              Built(c) ==
                  /\ third' = [third EXCEPT !.doc = d, !.v = c.v]
                  /\ Left(c, IF merged.exc # "" THEN Raise(c.h, merged.exc)
                             ELSE deep_merge(c.h, merged.v, c.v, hashOrder))
          IN Built(Alloc(heap, d))
    /\ pc' = "merged_again"
    /\ UNCHANGED <<hashOrder, A, B, A0, B0, merged, renderVars>>

Init == InitMerge \/ InitRender

Next ==
    \/ CallDeepMerge
    \/ CallDeepMergeAgain
    \/ CmdRender
    \/ RenderStackInclude
    \/ RenderService
    \/ RenderServiceProvision
    \/ RenderServiceSidecar
    \/ RenderServiceReturn
    \/ RenderStackNetworks
    \/ CmdRenderOutput

Spec == Init /\ [][Next]_vars

\* ------------------------------------------------------------------------
\* Properties of deep_merge

\* deep_merge has returned or failed on A and B.
Called == pc \in {"merged", "merged_again"}

RECURSIVE Below(_, _)
\* The mapping `depth` levels of "services" below the top of document d.
Below(d, depth) == IF depth = 0 THEN d ELSE Below(d.m.services, depth - 1)

\* The value document d holds under the merged key, or Absent.
Held(d) ==
    LET AtKey(f) == IF third.key \in DOMAIN f THEN f[third.key] ELSE Absent
    IN AtKey(Below(d, third.depth).m)

\* Scalars are what a set can hold.
Hashable(l) == \A i \in 1..Len(l) : IsScalar(l[i])

\* C1: deep_merge(A, B) leaves A and B deep-equal to what they were before
\* the call, whether it returned or failed, at every level and under every
\* policy; a base handed to a second merge (A again, and the result of the
\* first merge) was not altered by the first and is not altered by the second.
C1_ArgumentsUnchanged ==
    Called =>
        /\ Read(heap, A) = A0
        /\ Read(heap, B) = B0
        /\ pc = "merged_again" => Read(heap, third.v) = third.doc
        /\ merged.exc = "" => Read(heap, merged.v) = merged.doc

\* A merge that changed something at a nested level, followed by a second
\* merge of the same A.
C1_Witness ==
    /\ pc = "merged_again"
    /\ third.depth = 1
    /\ merged.exc = "" /\ merged.doc # A0 /\ merged.doc # B0
    /\ left.exc = "" /\ left.doc # merged.doc
    /\ right.exc = "" /\ right.doc # A0

\* The kind of a value: mapping, sequence, scalar, or no value.
Kind(v) == IF v.t \in {"dict", "list", "absent"} THEN v.t ELSE "scalar"

RECURSIVE SameKinds(_, _)
\* Wherever mappings x and y share a key path, the two values are of the
\* same kind.
SameKinds(x, y) ==
    /\ Kind(x) = Kind(y)
    /\ x.t = "dict" /\ y.t = "dict" =>
          \A k \in (DOMAIN x.m) \cap (DOMAIN y.m) : SameKinds(x.m[k], y.m[k])

\* The elements of a sequence with the number of times each occurs.
BagOf(l) == [e \in Range(l) |-> Cardinality({i \in 1..Len(l) : l[i] = e})]

RECURSIVE Unordered(_)
\* Document d with each sequence under a union key taken as a bag: two
\* documents with the same image differ in the order of these sequences only.
Unordered(d) ==
    IF d.t = "dict"
    THEN Dict([k \in DOMAIN d.m |->
                  IF k \in UNION_KEYS /\ d.m[k].t = "list"
                  THEN [t |-> "bag", b |-> BagOf(d.m[k].l)]
                  ELSE Unordered(d.m[k])])
    ELSE IF d.t = "list" THEN List([i \in 1..Len(d.l) |-> Unordered(d.l[i])])
    ELSE d

\* Both groupings fail, or both return and the results are equal up to the
\* order of union sequences.
SameOutcome == (left.exc = "" <=> right.exc = "") /\ Unordered(left.doc) = Unordered(right.doc)

\* C3 as stated: deep_merge(deep_merge(A, B), C) equals
\* deep_merge(A, deep_merge(B, C)) for all documents A, B, C.
C3_Associative == pc = "merged_again" => SameOutcome

\* C3, amended: deep_merge is associative, up to the order of the sequences
\* under union keys, on documents A, B, C that hold values of the same kind
\* (mapping, sequence or scalar) wherever two of them share a key path.
C3_AssociativeOnSameKinds ==
    pc = "merged_again" /\ SameKinds(A0, B0) /\ SameKinds(A0, third.doc)
                        /\ SameKinds(B0, third.doc)
        => SameOutcome

\* Three environment mappings, nested, merged in both groupings.
C3_Witness ==
    /\ pc = "merged_again"
    /\ third.key = "environment" /\ third.depth = 1
    /\ SameKinds(A0, B0) /\ SameKinds(A0, third.doc) /\ SameKinds(B0, third.doc)
    /\ Held(A0).t = "dict" /\ Held(B0).t = "dict" /\ Held(third.doc).t = "dict"
    /\ Held(A0) # Held(B0) /\ Held(B0) # Held(third.doc)
    /\ left.exc = "" /\ left.doc = right.doc

RECURSIVE LaterWins(_, _, _)
\* In the result r of merging mappings a and b, every key of both whose
\* values are not both mappings, and not both sequences under a union or an
\* extend key, holds b's value; so at every level the recursive merge reaches.
LaterWins(a, b, r) ==
    \A k \in (DOMAIN a.m) \cap (DOMAIN b.m) :
        IF a.m[k].t = "dict" /\ b.m[k].t = "dict"
        THEN k \notin {"environment", "labels"} => LaterWins(a.m[k], b.m[k], r.m[k])
        ELSE IF a.m[k].t = "list" /\ b.m[k].t = "list"
                /\ k \in UNION_KEYS \cup EXTEND_KEYS
        THEN TRUE
        ELSE k \in DOMAIN r.m /\ r.m[k] = b.m[k]

\* C4: for every key k of both A and B whose values are not both mappings
\* and not both sequences, deep_merge(A, B)[k] equals B[k]; the same when both
\* are sequences and k is neither a union nor an extend key.
C4_LaterOperandWins ==
    /\ Called /\ merged.exc = "" => LaterWins(A0, B0, merged.doc)
    /\ pc = "merged_again" /\ left.exc = "" => LaterWins(merged.doc, third.doc, left.doc)

\* A mapping replaced by a null, one level down.
C4_Witness ==
    /\ pc = "merged"
    /\ third.depth = 1
    /\ Held(A0).t = "dict" /\ Held(B0) = None
    /\ merged.exc = "" /\ Held(merged.doc) = None

\* The merged key is a union key that both A and B hold a sequence under.
UnionCase == Called /\ third.key \in UNION_KEYS /\ Held(A0).t = "list" /\ Held(B0).t = "list"

\* The merged sequence holds the elements of either input, each once.
IsUnion(r) ==
    /\ r.t = "list"
    /\ Range(r.l) = Range(Held(A0).l) \cup Range(Held(B0).l)
    /\ \A i, j \in 1..Len(r.l) : r.l[i] = r.l[j] => i = j

Normalized(v) ==
    LET Done(n) == [exc |-> n.exc, doc |-> IF n.exc = "" THEN Read(n.h, n.v) ELSE None]
        Built(a) == Done(normalize_to_dict(a.h, a.v, third.key))
    IN Built(Alloc(<<>>, v))

\* The merged key is environment or labels, A and B both hold it, as a list
\* of strings or as a mapping, and one of them as a list.
ListCase ==
    /\ pc = "merged"
    /\ third.key \in {"environment", "labels"}
    /\ Held(A0).t \in {"dict", "list"} /\ Held(B0).t \in {"dict", "list"}
    /\ Held(A0).t = "list" \/ Held(B0).t = "list"
    /\ Held(A0).t = "list" => Hashable(Held(A0).l)
    /\ Held(B0).t = "list" => Hashable(Held(B0).l)

\* C8 as stated: a side given as a list of KEY=VALUE strings is normalized
\* into a mapping before the two sides are merged, so the result holds the
\* entries of both sides with the overlay's value on a shared key; a list
\* entry without "=" makes the merge fail.
C8_ListsNormalized ==
    ListCase =>
        LET Expected(x, y) ==
              IF x.exc # "" \/ y.exc # "" THEN merged.exc # ""
              ELSE /\ merged.exc = ""
                   /\ Held(merged.doc) = merge_documents(x.doc, y.doc, hashOrder).doc
        IN Expected(Normalized(Held(A0)), Normalized(Held(B0)))

\* ------------------------------------------------------------------------
\* Properties of the renderers

\* cmd_render holds the Output Set the renderer returned.
HasOutput == pc \in {"output", "exit_0"}

\* The fragments render_service loads for manifest mf, in the order it loads
\* them: the provisions as listed, then the sidecars.
Fragments(mf) ==
    [j \in 1..(Len(mf.provisions) + Len(mf.services)) |->
        IF j <= Len(mf.provisions)
        THEN load_provision(mf.provisions[j], name_and_config(mf.name, mf.config))
        ELSE LET sidecar == mf.services[j - Len(mf.provisions)]
             IN load_provision(sidecar.type,
                    sidecar_vars(mf.name, sidecar.type, sidecar.config, mf.config))]

\* The file of a fragment is missing, or holds a placeholder that
\* `variables` does not define.
Unloadable(provision_name, variables) ==
    \/ provision_name \notin DOMAIN ProvisionFiles
    \/ \E s \in Templates(ProvisionFiles[provision_name]) :
          interpolate(s, variables).exc # ""

\* Manifest mf has no name, or (in normal mode) lists a fragment that cannot
\* be loaded.
Faulty(mf) ==
    \/ mf.name = Absent
    \/ /\ mf.type # Str("raw")
       /\ \/ \E j \in 1..Len(mf.provisions) :
                Unloadable(mf.provisions[j], name_and_config(mf.name, mf.config))
          \/ \E j \in 1..Len(mf.services) :
                Unloadable(mf.services[j].type,
                    sidecar_vars(mf.name, mf.services[j].type, mf.services[j].config,
                                 mf.config))

\* Some step of the render of the input is bound to fail.
FaultyInput ==
    IF IsStack
    THEN \E i \in 1..Len(stack.include) :
            \/ stack.include[i] \notin DOMAIN services_dir
            \/ Faulty(services_dir[stack.include[i]])
    ELSE Faulty(services_dir[ServiceFile])

\* C2: every error aborts the whole render.  Once a step has failed no
\* Output Set is returned, no file is written and nothing is printed, however
\* many services or fragments were merged before; an Output Set is returned
\* only when no included service file is missing, every manifest has a name
\* and every fragment could be loaded and interpolated; nothing is written
\* or printed before the renderer has returned.
C2_ErrorsAbortRender ==
    /\ exc # "" => pc = "raised" /\ rendered = Absent /\ written = EmptyMap /\ printed = <<>>
    /\ HasOutput => exc = "" /\ ~FaultyInput
    /\ pc \notin {"output", "exit_0", "exit_1"} =>
          rendered = Absent /\ written = EmptyMap /\ printed = <<>>

\* The second service of a stack fails on a placeholder after the first was
\* rendered and merged.
C2_Witness ==
    /\ pc = "raised"
    /\ IsStack /\ stack.include = <<"web", "novar">>
    /\ include_i = 2 /\ outputs # EmptyOutputs
    /\ exc # "" /\ written = EmptyMap /\ printed = <<>>

\* The sequence a gatus document holds under `endpoints`.
Endpoints(doc) == IF "endpoints" \in DOMAIN doc.m THEN doc.m.endpoints.l ELSE <<>>

RECURSIVE FragmentEndpoints(_, _)
\* The endpoints of the loaded fragments frs[1..n], in order.
FragmentEndpoints(frs, n) ==
    IF n = 0 THEN <<>>
    ELSE FragmentEndpoints(frs, n - 1)
            \o (IF "gatus" \in DOMAIN frs[n].doc.m
                THEN Endpoints(frs[n].doc.m.gatus) ELSE <<>>)

\* The endpoints of the service of manifest mf.
ServiceEndpoints(mf) ==
    IF mf.type = Str("raw") THEN <<>>
    ELSE FragmentEndpoints(Fragments(mf), Len(mf.provisions) + Len(mf.services))

RECURSIVE StackEndpoints(_)
\* The endpoints of the first n included services, in include order.
StackEndpoints(n) ==
    IF n = 0 THEN <<>>
    ELSE StackEndpoints(n - 1) \o ServiceEndpoints(services_dir[stack.include[n]])

\* C6: for `endpoints` present as a sequence in both base and overlay, the
\* merged sequence is the base sequence followed by the overlay sequence,
\* duplicates kept; so render_stack's `endpoints` holds the endpoints of the
\* included services in include order, after each service and on return.
C6_EndpointsExtend ==
    /\ Called /\ third.key \in EXTEND_KEYS /\ Held(A0).t = "list" /\ Held(B0).t = "list" =>
          /\ merged.exc = ""
          /\ Held(merged.doc) = List(Held(A0).l \o Held(B0).l)
    /\ pc = "render_stack" => Endpoints(outputs.gatus) = StackEndpoints(include_i - 1)
    /\ HasOutput /\ IsStack => Endpoints(rendered.gatus) = StackEndpoints(Len(stack.include))

\* A stack that includes the same service twice: its endpoint is kept twice.
C6_Witness ==
    /\ pc = "output"
    /\ IsStack /\ stack.include = <<"web", "web">>
    /\ Len(Endpoints(rendered.gatus)) = 2
    /\ rendered.gatus.m.endpoints.l[1] = rendered.gatus.m.endpoints.l[2]

\* C7: when the stack carries `networks`, render_stack returns its value
\* verbatim as compose.networks, whatever the services produced under that
\* key; the assignment is made after the last included service was merged,
\* leaves every other key of compose, traefik and gatus as the merges left
\* it, and the Output Set is not changed after it.
C7_StackNetworksVerbatim ==
    [][/\ pc = "render_stack" /\ pc' = "output" /\ stack.networks # Absent =>
            /\ include_i > Len(stack.include)
            /\ rendered'.compose.m.networks = stack.networks
            /\ DOMAIN rendered'.compose.m = DOMAIN outputs.compose.m \cup {"networks"}
            /\ \A k \in DOMAIN outputs.compose.m \ {"networks"} :
                  rendered'.compose.m[k] = outputs.compose.m[k]
            /\ rendered'.traefik = outputs.traefik
            /\ rendered'.gatus = outputs.gatus
       /\ HasOutput => rendered' = rendered]_vars

\* A stack with `networks` whose services produced a compose.networks of
\* their own.
C7_Witness ==
    /\ pc = "output"
    /\ IsStack /\ stack.networks # Absent
    /\ stack.include = <<"web", "api">>
    /\ rendered.compose.m.networks = stack.networks
    /\ "services" \in DOMAIN rendered.compose.m

\* C9: for a manifest with `type: raw` (and a name) render_service loads no
\* fragment, so it cannot fail on the provisions or sidecars the manifest
\* lists, and returns compose = {services: <compose payload>} when there is a
\* payload, empty otherwise, with empty traefik and gatus.
C9_RawBypassesFragments ==
    manifest # Absent /\ manifest.type = Str("raw") /\ manifest.name # Absent =>
        LET expected ==
              [compose |-> IF manifest.compose # Absent
                           THEN Dict([services |-> manifest.compose])
                           ELSE Dict(EmptyMap),
               traefik |-> Dict(EmptyMap),
               gatus |-> Dict(EmptyMap)]
        IN /\ pc # "service_loops"
           /\ pc = "service_return" => service_outputs = expected /\ exc = ""
           /\ ~IsStack => exc = ""
           /\ ~IsStack /\ HasOutput => rendered = expected

\* A raw manifest that lists a provision and a sidecar with no file.
C9_Witness ==
    /\ pc = "exit_0"
    /\ ~IsStack
    /\ manifest.type = Str("raw")
    /\ manifest.provisions = <<"nofile">> /\ Len(manifest.services) = 1
    /\ rendered.compose = Dict([services |-> RawCompose])
    /\ written # EmptyMap

RECURSIVE FoldFragments(_, _, _)
\* For each target, the left fold of deep_merge, from the empty mapping, over
\* the parts for that target of the loaded fragments frs[1..n].
FoldFragments(frs, n, ord) ==
    IF n = 0 THEN EmptyOutputs
    ELSE LET Part(acc, fr, target) ==
               IF acc[target] # None /\ target \in DOMAIN fr.doc.m
               THEN merge_documents(acc[target], fr.doc.m[target], ord).doc
               ELSE acc[target]
             Step(acc, fr) ==
               [compose |-> Part(acc, fr, "compose"),
                traefik |-> Part(acc, fr, "traefik"),
                gatus |-> Part(acc, fr, "gatus")]
         IN Step(FoldFragments(frs, n - 1, ord), frs[n])

\* Output Set outs is, target by target, the fold over the first n fragments.
IsFold(outs, frs, n) == outs = FoldFragments(frs, n, hashOrder)

\* C10: in normal mode each target's document is the left fold of deep_merge
\* (accumulated output as base, fragment's part as overlay) from the empty
\* mapping over the provisions in listed order, then the sidecars in mapping
\* order: after every pass of the loops, and in what render_service returns.
C10_FragmentsFoldInOrder ==
    /\ pc = "service_loops" => IsFold(service_outputs, Fragments(manifest), loop_j - 1)
    /\ HasOutput /\ ~IsStack /\ manifest.type # Str("raw") =>
          IsFold(rendered, Fragments(manifest),
                 Len(manifest.provisions) + Len(manifest.services))

\* Two provisions and a sidecar set `restart`: the sidecar's value is kept.
C10_Witness ==
    /\ pc = "service_loops"
    /\ manifest.provisions = <<"app", "edge">> /\ Len(manifest.services) = 1
    /\ loop_j = 4
    /\ service_outputs.compose.m.services.m.web.m.restart = Str("on-failure")
    /\ service_outputs.traefik # Dict(EmptyMap)

====
